---- MODULE Spec2Model ----
(***************************************************************************)
(* Model of update_readme.py: the README generator of the                  *)
(* hep-packaging-coordination organisation profile.                        *)
(*                                                                         *)
(* Spec     : one run of main() (fetch the remote outputs document, invert *)
(*            it, load feedstocks.json, render one section per category,   *)
(*            append footer and timestamp, write profile/README.md).       *)
(* SpecUnit : single calls of get_open_prs_count and generate_tool_row on  *)
(*            inputs drawn from bounded sets.                              *)
(*                                                                         *)
(* A Python call is modelled by an operator returning a record whose field *)
(* "raised" tells whether the call ended by an exception ("" when it       *)
(* returned normally, else the exception's name).                          *)
(***************************************************************************)
EXTENDS Integers, Sequences, FiniteSets, TLC

VARIABLES
    pc,                \* position of main: start, fetched, render, done, aborted, unit
    response,          \* what the GET of feedstock-outputs.json produced
    FEEDSTOCK_OUTPUTS, \* the module-level global set at line 100
    data,              \* the parsed feedstocks.json (line 104)
    idx,               \* number of categories the loop at line 117 has consumed
    lines,             \* main's list of Markdown lines
    readme,            \* content of profile/README.md
    effects,           \* network and file operations performed, in order
    log,               \* what was printed to standard output, in order
    exc,               \* the exception that ended main and where it was raised
    unitTool,          \* SpecUnit: the feedstock name the calls are made with
    prResponse,        \* SpecUnit: what the GET of the pulls endpoint produces
    prResult,          \* SpecUnit: result of get_open_prs_count
    rowResult          \* SpecUnit: result of generate_tool_row

vars == <<pc, response, FEEDSTOCK_OUTPUTS, data, idx, lines, readme, effects,
          log, exc, unitTool, prResponse, prResult, rowResult>>

mainVars == <<response, data, idx, lines, readme, effects, log, exc>>
unitVars == <<unitTool, prResponse, prResult, rowResult>>

(***************************************************************************)
(* Bounds and the finite universes the inputs are drawn from.              *)
(***************************************************************************)
\* total number of tool entries in feedstocks.json
MaxTools == 2
\* number of entries in a pull-request listing
MaxPulls == 5

ToolNames == {"fastjet", "root"}
OutputNames == {"fastjet", "root_base"}
CategoryNames == {"Generators", "Analysis"}
SubNames == {"Fitting", "Plotting"}

\* Python's ordering of the strings used as names (str.__lt__).
NameOrder == <<"fastjet", "root", "root_base">>

NameRank(n) == CHOOSE i \in 1..Len(NameOrder) : NameOrder[i] = n

EmptyMapping == [t \in {} |-> {}]

(***************************************************************************)
(* sorted(): on a list (line 88) and on a set (line 64).                   *)
(***************************************************************************)
RECURSIVE InsertSorted(_, _)
InsertSorted(x, s) ==
    IF s = <<>> THEN <<x>>
    ELSE IF NameRank(x) < NameRank(Head(s)) THEN <<x>> \o s
    ELSE <<Head(s)>> \o InsertSorted(x, Tail(s))

RECURSIVE sorted(_)
sorted(s) == IF s = <<>> THEN <<>> ELSE InsertSorted(Head(s), sorted(Tail(s)))

RECURSIVE SetToSeq(_)
SetToSeq(S) ==
    IF S = {} THEN <<>>
    ELSE LET x == CHOOSE y \in S : TRUE IN <<x>> \o SetToSeq(S \ {x})

sortedSet(S) == sorted(SetToSeq(S))

(***************************************************************************)
(* Markdown lines.  A table row keeps what it is built from: the feedstock *)
(* (the two badge links), the output (the five badge images) and the       *)
(* content of the "Open PRs" cell.                                          *)
(***************************************************************************)
Text(s) == [kind |-> "text", text |-> s]
SectionHeader(title) == [kind |-> "h3", text |-> title]
Cell(s, linked) == [text |-> s, link |-> linked]
Row(f, o, c) == [kind |-> "row", feedstock |-> f, output |-> o, pr |-> c]

Printed(m, a, b) == [msg |-> m, a |-> a, b |-> b]

(***************************************************************************)
(* Inputs of a run.                                                        *)
(***************************************************************************)
\* The remote document maps an output name to the feedstocks owning it; the
\* GET may fail to connect, answer an HTTP error status, or answer a body
\* that is not JSON.
Bodies == [OutputNames -> SUBSET ToolNames]

Responses ==
    {[kind |-> "ok", body |-> b] : b \in Bodies}
    \cup {[kind |-> k, body |-> EmptyMapping] :
            k \in {"conn_error", "http_error", "bad_json"}}

NoResponse == [kind |-> "none", body |-> EmptyMapping]

ToolLists == UNION {[1..k -> ToolNames] : k \in 0..MaxTools}

RECURSIVE SubsTools(_)
SubsTools(subs) ==
    IF subs = <<>> THEN <<>> ELSE Head(subs).tools \o SubsTools(Tail(subs))

DistinctNames(s) ==
    \A i, j \in 1..Len(s) : i # j => s[i].name # s[j].name

\* The content of a nested category: subcategory name -> list of tools, in
\* insertion order (a JSON object has no repeated key once parsed).
SubSeqs ==
    {s \in UNION {[1..m -> [name : SubNames, tools : ToolLists]] :
                    m \in 0..Cardinality(SubNames)} :
        DistinctNames(s) /\ Len(SubsTools(s)) <= MaxTools}

\* A category: a flat list, a nested mapping, or any other JSON value.
Categories ==
    {[name |-> n, shape |-> "list", tools |-> t, subs |-> <<>>] :
        n \in CategoryNames, t \in ToolLists}
    \cup {[name |-> n, shape |-> "dict", tools |-> <<>>, subs |-> s] :
        n \in CategoryNames, s \in SubSeqs}
    \cup {[name |-> n, shape |-> "other", tools |-> <<>>, subs |-> <<>>] :
        n \in CategoryNames}

\* Every tool entry of the config, in document order.
RECURSIVE ListedTools(_)
ListedTools(d) ==
    IF d = <<>> THEN <<>>
    ELSE (IF Head(d).shape = "list" THEN Head(d).tools
          ELSE IF Head(d).shape = "dict" THEN SubsTools(Head(d).subs)
          ELSE <<>>) \o ListedTools(Tail(d))

Configs ==
    {d \in UNION {[1..m -> Categories] : m \in 0..Cardinality(CategoryNames)} :
        DistinctNames(d) /\ Len(ListedTools(d)) <= MaxTools}

OldReadme == <<Text("# previous README")>>

\* An exception propagating out of main: its type and the call that raised it.
Raised(type, at) == [type |-> type, at |-> at]

NoExc == Raised("", "")

(***************************************************************************)
(* load_feedstock_outputs (lines 9-21) and the inversion of lines 96-100.  *)
(***************************************************************************)
\* Variant of LoadFeedstockOutputs decoding the body after the try statement.
LoadFeedstockOutputsJsonOutsideTry(resp) ==
    IF resp.kind \in {"conn_error", "http_error"}
    THEN [raised |-> "", value |-> EmptyMapping,
          printed |-> <<Printed("Error loading feedstock outputs", resp.kind, "")>>]
    ELSE IF resp.kind = "bad_json"
    THEN [raised |-> "JSONDecodeError", value |-> EmptyMapping, printed |-> <<>>]
    ELSE [raised |-> "", value |-> resp.body, printed |-> <<>>]

LoadFeedstockOutputs(resp) ==
    IF resp.kind # "ok"
    THEN \* requests.get, raise_for_status or response.json raised inside the try
         [raised |-> "", value |-> EmptyMapping,
          printed |-> <<Printed("Error loading feedstock outputs", resp.kind, "")>>]
    ELSE [raised |-> "", value |-> resp.body, printed |-> <<>>]

InvertOutputs(mapping) ==
    LET owners == UNION {mapping[o] : o \in DOMAIN mapping}
    IN [f \in owners |-> {o \in DOMAIN mapping : f \in mapping[o]}]

(***************************************************************************)
(* get_open_prs_count (lines 24-45).  A pull-request entry either carries  *)
(* a "draft" field or lacks it.                                            *)
(***************************************************************************)
PullEntries ==
    {[has_draft |-> TRUE, draft |-> TRUE], [has_draft |-> TRUE, draft |-> FALSE],
     [has_draft |-> FALSE, draft |-> FALSE]}

PrResponses ==
    {[kind |-> "ok", pulls |-> p] :
        p \in UNION {[1..k -> PullEntries] : k \in 0..MaxPulls}}
    \cup {[kind |-> k, pulls |-> <<>>] :
            k \in {"conn_error", "http_error", "bad_json"}}

NoPrResponse == [kind |-> "none", pulls |-> <<>>]

NotCalled == [raised |-> "", kind |-> "not_called"]

\* Variant of GetDraft taking an entry without the field for a draft.
GetDraftDefaultTrue(pr) == IF pr.has_draft THEN pr.draft ELSE TRUE

\* line 44: pr.get("draft", False)
GetDraft(pr) == IF pr.has_draft THEN pr.draft ELSE FALSE

IsNonDraft(pr) == ~GetDraft(pr)

GetOpenPrsCount(feedstock, resp) ==
    IF resp.kind \in {"conn_error", "http_error"}
    THEN \* lines 39-41: the except clause around get and raise_for_status
         [raised |-> "", kind |-> "str", text |-> "ERROR", count |-> 0,
          printed |-> <<Printed("Error fetching PRs for", feedstock, resp.kind)>>]
    ELSE IF resp.kind = "bad_json"
    THEN \* line 42: response.json() is called after the try statement
         [raised |-> "JSONDecodeError", kind |-> "none", text |-> "", count |-> 0,
          printed |-> <<>>]
    ELSE [raised |-> "", kind |-> "int", text |-> "",
          count |-> Len(SelectSeq(resp.pulls, IsNonDraft)),
          printed |-> <<>>]

(***************************************************************************)
(* generate_tool_row (lines 48-74).                                        *)
(***************************************************************************)
\* line 61: the call of get_open_prs_count is commented out
pr_count == 0

\* line 62
PrCountLink(count) ==
    IF count = 0 THEN Cell("", FALSE) ELSE Cell(count, TRUE)

\* Variant of GenerateToolRow yielding a row for the first output only.
GenerateToolRowFirstOutputOnly(fo, feedstock_name) ==
    IF feedstock_name \notin DOMAIN fo
    THEN [raised |-> "KeyError", rows |-> <<>>, printed |-> <<>>]
    ELSE LET outs == SubSeq(sortedSet(fo[feedstock_name]), 1, 1)
         IN [raised |-> "",
             rows |-> [i \in 1..Len(outs) |->
                         Row(feedstock_name, outs[i], PrCountLink(pr_count))],
             printed |-> [i \in 1..Len(outs) |->
                         Printed("row", feedstock_name, outs[i])]]

GenerateToolRow(fo, feedstock_name) ==
    IF feedstock_name \notin DOMAIN fo
    THEN \* line 64: FEEDSTOCK_OUTPUTS is a plain dict
         [raised |-> "KeyError", rows |-> <<>>, printed |-> <<>>]
    ELSE LET outs == sortedSet(fo[feedstock_name])
         IN [raised |-> "",
             rows |-> [i \in 1..Len(outs) |->
                         Row(feedstock_name, outs[i], PrCountLink(pr_count))],
             printed |-> [i \in 1..Len(outs) |->
                         Printed("row", feedstock_name, outs[i])]]

(***************************************************************************)
(* process_tools_section (lines 77-91).                                    *)
(***************************************************************************)
TableHeader ==
    <<Text("| Feedstock | Output | Downloads | Version | Platforms | Open PRs |"),
      Text("| --- | --- | --- | --- | --- | --- |")>>

\* the loop of lines 88-89 over the already sorted tools
RECURSIVE ToolRows(_, _)
ToolRows(fo, tools) ==
    IF tools = <<>> THEN [raised |-> "", rows |-> <<>>, printed |-> <<>>]
    ELSE LET r == GenerateToolRow(fo, Head(tools))
         IN IF r.raised # "" THEN r
            ELSE LET rest == ToolRows(fo, Tail(tools))
                 IN [raised |-> rest.raised,
                     rows |-> r.rows \o rest.rows,
                     printed |-> r.printed \o rest.printed]

ProcessToolsSection(fo, section_title, tools) ==
    LET r == ToolRows(fo, sorted(tools))
    IN [raised |-> r.raised,
        lines |-> IF r.raised # "" THEN <<>>
                  ELSE <<SectionHeader(section_title), Text("")>> \o TableHeader
                       \o r.rows \o <<Text("")>>,
        printed |-> r.printed]

(***************************************************************************)
(* main (lines 94-148).                                                    *)
(***************************************************************************)
\* lines 106-114
Preamble ==
    <<Text("# HEP Packaging Coordination"), Text(""),
      Text("A community project working to get as many cross-platform builds of HEP tools on conda-forge as possible."),
      Text(""),
      Text("## Tools distributed on conda-forge"), Text("")>>

\* lines 127-136
Footer ==
    <<Text("## Adding new tools"), Text(""),
      Text("Contributions of new HEP tools are very welcome!"), Text(""),
      Text("To get a new tool listed:"),
      Text("1. Package and distribute your tool on conda-forge."),
      Text("2. Open up an [Issue](https://github.com/hep-packaging-coordination/.github/issues) with title \"Add `<tool name>` to HEP Packaging Coordination\" with a link to the tool's conda-forge feedstock."),
      Text("")>>

\* lines 139-140: the clock is read once; its value is not modelled
Timestamp == [kind |-> "timestamp", text |-> "Last updated: <now_utc>"]

\* Variant of CategoryAt iterating the categories in reverse insertion order.
CategoryAtReversed(d, i) == d[Len(d) + 1 - i]

\* line 117: data.items() yields the categories in insertion order
CategoryAt(d, i) == d[i]

\* lines 121-122: the subcategories of a nested category, in insertion order
RECURSIVE ProcessSubcategories(_, _)
ProcessSubcategories(fo, subs) ==
    IF subs = <<>> THEN [raised |-> "", lines |-> <<>>, printed |-> <<>>]
    ELSE LET r == ProcessToolsSection(fo, Head(subs).name, Head(subs).tools)
         IN IF r.raised # "" THEN r
            ELSE LET rest == ProcessSubcategories(fo, Tail(subs))
                 IN [raised |-> rest.raised,
                     lines |-> IF rest.raised # "" THEN <<>> ELSE r.lines \o rest.lines,
                     printed |-> r.printed \o rest.printed]

\* Variant of ProcessContent rendering an empty section for an unrecognized
\* category instead of skipping it.
ProcessContentRenderingUnexpected(fo, cat) ==
    IF cat.shape = "list" THEN ProcessToolsSection(fo, cat.name, cat.tools)
    ELSE IF cat.shape = "dict" THEN ProcessSubcategories(fo, cat.subs)
    ELSE ProcessToolsSection(fo, cat.name, <<>>)

\* lines 118-124: the body of the loop over the categories
ProcessContent(fo, cat) ==
    IF cat.shape = "list" THEN ProcessToolsSection(fo, cat.name, cat.tools)
    ELSE IF cat.shape = "dict" THEN ProcessSubcategories(fo, cat.subs)
    ELSE [raised |-> "", lines |-> <<>>,
          printed |-> <<Printed("Unexpected data type for category", cat.name, "")>>]

Init ==
    /\ pc = "start"
    /\ response = NoResponse
    /\ FEEDSTOCK_OUTPUTS = EmptyMapping
    /\ data = <<>>
    /\ idx = 0
    /\ lines = <<>>
    /\ readme = OldReadme
    /\ effects = <<>>
    /\ log = <<>>
    /\ exc = NoExc
    /\ unitTool = ""
    /\ prResponse = NoPrResponse
    /\ prResult = NotCalled
    /\ rowResult = NotCalled

\* lines 96-100: fetch the remote document and invert it
FetchOutputs ==
    /\ pc = "start"
    /\ \E resp \in Responses :
        LET r == LoadFeedstockOutputs(resp)
        IN /\ response' = resp
           /\ effects' = Append(effects, "GET feedstock-outputs.json")
           /\ log' = log \o r.printed
           /\ IF r.raised # ""
              THEN /\ pc' = "aborted"
                   /\ exc' = Raised(r.raised, "load_feedstock_outputs")
                   /\ UNCHANGED FEEDSTOCK_OUTPUTS
              ELSE /\ pc' = "fetched"
                   /\ FEEDSTOCK_OUTPUTS' = InvertOutputs(r.value)
                   /\ UNCHANGED exc
    /\ UNCHANGED <<data, idx, lines, readme>>
    /\ UNCHANGED unitVars

\* lines 103-114: feedstocks.json is read and parsed, the preamble is appended
LoadConfig ==
    /\ pc = "fetched"
    /\ \E d \in Configs :
        /\ data' = d
        /\ lines' = Preamble
    /\ idx' = 0
    /\ effects' = Append(effects, "read feedstocks.json")
    /\ pc' = "render"
    /\ UNCHANGED <<response, FEEDSTOCK_OUTPUTS, readme, log, exc>>
    /\ UNCHANGED unitVars

\* lines 103-104 raising: the file is missing or is not JSON
LoadConfigFails ==
    /\ pc = "fetched"
    /\ \E e \in {"FileNotFoundError", "JSONDecodeError"} :
        /\ exc' = Raised(e, "feedstocks.json")
        /\ effects' = Append(effects, "read feedstocks.json")
    /\ pc' = "aborted"
    /\ UNCHANGED <<response, FEEDSTOCK_OUTPUTS, data, idx, lines, readme, log>>
    /\ UNCHANGED unitVars

\* lines 117-124: one iteration of the loop over the categories
ProcessCategory ==
    /\ pc = "render"
    /\ idx < Len(data)
    /\ LET r == ProcessContent(FEEDSTOCK_OUTPUTS, CategoryAt(data, idx + 1))
       IN /\ log' = log \o r.printed
          /\ IF r.raised # ""
             THEN /\ pc' = "aborted"
                  /\ exc' = Raised(r.raised, "generate_tool_row")
                  /\ UNCHANGED <<lines, idx>>
             ELSE /\ lines' = lines \o r.lines
                  /\ idx' = idx + 1
                  /\ UNCHANGED <<pc, exc>>
    /\ UNCHANGED <<response, FEEDSTOCK_OUTPUTS, data, readme, effects>>
    /\ UNCHANGED unitVars

\* Variant of Finish that opens README.md for writing before the document
\* is complete: the footer is missing from what is written.
FinishWritingEarly ==
    /\ pc = "render"
    /\ idx = Len(data)
    /\ lines' = lines \o Footer \o <<Timestamp>>
    /\ readme' = lines
    /\ effects' = Append(effects, "write profile/README.md")
    /\ log' = Append(log, Printed("README.md updated successfully", "", ""))
    /\ pc' = "done"
    /\ UNCHANGED <<response, FEEDSTOCK_OUTPUTS, data, idx, exc>>
    /\ UNCHANGED unitVars

\* lines 126-148: footer, timestamp, write of profile/README.md
Finish ==
    /\ pc = "render"
    /\ idx = Len(data)
    /\ lines' = lines \o Footer \o <<Timestamp>>
    /\ readme' = lines'
    /\ effects' = Append(effects, "write profile/README.md")
    /\ log' = Append(log, Printed("README.md updated successfully", "", ""))
    /\ pc' = "done"
    /\ UNCHANGED <<response, FEEDSTOCK_OUTPUTS, data, idx, exc>>
    /\ UNCHANGED unitVars

Next ==
    \/ FetchOutputs
    \/ LoadConfig
    \/ LoadConfigFails
    \/ ProcessCategory
    \/ Finish

Spec == Init /\ [][Next]_vars

(***************************************************************************)
(* Single calls of get_open_prs_count and generate_tool_row.               *)
(***************************************************************************)
UnitInit ==
    /\ pc = "unit"
    /\ response = NoResponse
    /\ FEEDSTOCK_OUTPUTS \in {InvertOutputs(b) : b \in Bodies}
    /\ data = <<>>
    /\ idx = 0
    /\ lines = <<>>
    /\ readme = OldReadme
    /\ effects = <<>>
    /\ log = <<>>
    /\ exc = NoExc
    /\ unitTool \in ToolNames
    /\ prResponse \in PrResponses
    /\ prResult = NotCalled
    /\ rowResult = NotCalled

CallGetOpenPrsCount ==
    /\ pc = "unit"
    /\ prResult = NotCalled
    /\ prResult' = GetOpenPrsCount(unitTool, prResponse)
    /\ UNCHANGED <<pc, FEEDSTOCK_OUTPUTS, unitTool, prResponse, rowResult>>
    /\ UNCHANGED mainVars

CallGenerateToolRow ==
    /\ pc = "unit"
    /\ rowResult = NotCalled
    /\ rowResult' = [raised |-> GenerateToolRow(FEEDSTOCK_OUTPUTS, unitTool).raised,
                     kind |-> "rows",
                     rows |-> GenerateToolRow(FEEDSTOCK_OUTPUTS, unitTool).rows]
    /\ UNCHANGED <<pc, FEEDSTOCK_OUTPUTS, unitTool, prResponse, prResult>>
    /\ UNCHANGED mainVars

UnitNext ==
    \/ CallGetOpenPrsCount
    \/ CallGenerateToolRow

SpecUnit == UnitInit /\ [][UnitNext]_vars

(***************************************************************************)
(* Properties.                                                             *)
(***************************************************************************)
\* number of table rows of doc built from feedstock t and output o
RowCount(doc, t, o) ==
    Cardinality({i \in 1..Len(doc) :
        doc[i].kind = "row" /\ doc[i].feedstock = t /\ doc[i].output = o})

\* number of times tool t is listed in config d
Occurrences(t, d) ==
    Cardinality({i \in 1..Len(ListedTools(d)) : ListedTools(d)[i] = t})

Listed(d) == {ListedTools(d)[i] : i \in 1..Len(ListedTools(d))}

\* the outputs whose list of owners in the remote document contains t
ResolvedOutputs(t) ==
    IF response.kind = "ok"
    THEN {o \in DOMAIN response.body : t \in response.body[o]}
    ELSE {}

\* C1 as stated: in the written document every listed tool has exactly one
\* row per resolved output (and no row for any other output).
C1_OneRowPerOutput ==
    pc = "done" =>
        \A t \in Listed(data) : \A o \in OutputNames \cup ToolNames :
            RowCount(readme, t, o) = IF o \in ResolvedOutputs(t) THEN 1 ELSE 0

\* C1 amended: in the written document every listed tool has, for each of
\* its resolved outputs, exactly one row per listing of the tool in the
\* config, no row for any other output, and no row belongs to an unlisted
\* tool.
C1_OneRowPerOutputPerListing ==
    pc = "done" =>
        /\ \A t \in Listed(data) : \A o \in OutputNames \cup ToolNames :
            RowCount(readme, t, o) =
                IF o \in ResolvedOutputs(t) THEN Occurrences(t, data) ELSE 0
        /\ \A i \in 1..Len(readme) :
            readme[i].kind = "row" => readme[i].feedstock \in Listed(data)

C1_Witness ==
    /\ pc = "done"
    /\ \E t \in Listed(data) :
        /\ Cardinality(ResolvedOutputs(t)) = 2
        /\ Occurrences(t, data) = 2
        /\ RowCount(readme, t, "root_base") = 2

\* C2: a listed tool that is no feedstock of the mapping gets exactly one
\* row per listing, built from its own name, and the run does not crash
\* on it.
C2_FallbackToOwnName ==
    /\ exc.type # "KeyError"
    /\ pc = "done" =>
        \A t \in Listed(data) :
            t \notin DOMAIN FEEDSTOCK_OUTPUTS =>
                RowCount(readme, t, t) = Occurrences(t, data)

\* C3: when the pull-request fetch for a tool fails, every row generated
\* for the tool carries the sentinel as plain text in its Open PRs cell.
C3_SentinelRendered ==
    (/\ prResponse.kind \in {"conn_error", "http_error"}
     /\ rowResult.kind = "rows"
     /\ rowResult.raised = "") =>
        \A i \in 1..Len(rowResult.rows) :
            rowResult.rows[i].pr = Cell(GetOpenPrsCount(unitTool, prResponse).text, FALSE)

\* C4: on a successful response the fetcher returns the number of entries
\* that are not flagged as draft.
C4_DraftsExcluded ==
    (prResult.kind # "not_called" /\ prResponse.kind = "ok") =>
        /\ prResult.raised = ""
        /\ prResult.kind = "int"
        /\ prResult.count =
            Len(prResponse.pulls)
            - Cardinality({i \in 1..Len(prResponse.pulls) :
                prResponse.pulls[i].has_draft /\ prResponse.pulls[i].draft})

C4_Witness ==
    /\ prResult.kind = "int"
    /\ prResult.count = 2
    /\ Len(prResponse.pulls) = 5
    /\ Cardinality({i \in 1..5 :
            prResponse.pulls[i].has_draft /\ prResponse.pulls[i].draft}) = 3
    /\ \E i \in 1..5 : ~prResponse.pulls[i].has_draft

\* C5: the fetcher never raises; it returns the sentinel on every failure
\* of the GET or of the decoding of the body, an integer otherwise.
C5_FetcherNeverRaises ==
    prResult.kind # "not_called" =>
        /\ prResult.raised = ""
        /\ prResponse.kind = "ok" => prResult.kind = "int"
        /\ prResponse.kind # "ok" => prResult.kind = "str" /\ prResult.text = "ERROR"

\* C6: load_feedstock_outputs never raises; on a connection failure, an
\* HTTP error status or an undecodable body the mapping is empty, a
\* diagnostic is printed and the run goes on.
C6_MappingFetcherNeverRaises ==
    pc # "start" =>
        /\ exc.at # "load_feedstock_outputs"
        /\ response.kind # "ok" =>
            /\ FEEDSTOCK_OUTPUTS = EmptyMapping
            /\ Len(log) >= 1
            /\ log[1].msg = "Error loading feedstock outputs"
            /\ pc = "aborted" => Len(effects) > 1

C6_Witness ==
    /\ pc = "done"
    /\ response.kind = "bad_json"
    /\ FEEDSTOCK_OUTPUTS = EmptyMapping

\* C7: once feedstocks.json is loaded, no exception ends main.
C7_OnlyConfigLoadAborts ==
    pc = "aborted" => exc.at = "feedstocks.json"

\* the titles of the sections config d asks for, in insertion order
RECURSIVE SectionTitles(_)
SectionTitles(d) ==
    IF d = <<>> THEN <<>>
    ELSE (IF Head(d).shape = "list" THEN <<Head(d).name>>
          ELSE IF Head(d).shape = "dict"
               THEN [j \in 1..Len(Head(d).subs) |-> Head(d).subs[j].name]
          ELSE <<>>) \o SectionTitles(Tail(d))

IsSectionHeader(l) == l.kind = "h3"

HeaderTitles(doc) ==
    LET hs == SelectSeq(doc, IsSectionHeader)
    IN [j \in 1..Len(hs) |-> hs[j].text]

\* C8: the written document is title, intro, "Tools distributed" header,
\* the sections in the config's insertion order, the footer, the timestamp.
C8_DocumentOrder ==
    pc = "done" =>
        LET n == Len(readme)
        IN /\ n >= Len(Preamble) + Len(Footer) + 1
           /\ SubSeq(readme, 1, Len(Preamble)) = Preamble
           /\ SubSeq(readme, n - Len(Footer), n - 1) = Footer
           /\ readme[n] = Timestamp
           /\ HeaderTitles(readme) = SectionTitles(data)
           /\ \A i \in 1..n :
                readme[i].kind \in {"h3", "row"} =>
                    Len(Preamble) < i /\ i < n - Len(Footer)

C8_Witness ==
    /\ pc = "done"
    /\ Len(data) = 2
    /\ data[1].shape = "dict"
    /\ data[2].shape = "list"
    /\ HeaderTitles(readme) = <<"Plotting", "Fitting", "Analysis">>

IsRecognized(cat) == cat.shape \in {"list", "dict"}

\* the sections of the categories cats, one after the other
RECURSIVE RenderedSections(_, _)
RenderedSections(fo, cats) ==
    IF cats = <<>> THEN <<>>
    ELSE ProcessContent(fo, Head(cats)).lines \o RenderedSections(fo, Tail(cats))

UnexpectedLogged(n) ==
    Cardinality({i \in 1..Len(log) : log[i].msg = "Unexpected data type for category"}) = n

\* C9: a category that is neither a list nor a mapping is logged and adds
\* no line; it ends no run; the other categories are rendered as they are
\* without it.
C9_UnexpectedSkipped ==
    /\ pc \in {"render", "done"} =>
        LET seen == SubSeq(data, 1, idx)
            body == SubSeq(lines, Len(Preamble) + 1,
                           IF pc = "done" THEN Len(lines) - Len(Footer) - 1 ELSE Len(lines))
        IN /\ body = RenderedSections(FEEDSTOCK_OUTPUTS, SelectSeq(seen, IsRecognized))
           /\ UnexpectedLogged(Len(seen) - Len(SelectSeq(seen, IsRecognized)))
    /\ (pc = "aborted" /\ exc.at = "generate_tool_row") =>
        IsRecognized(data[idx + 1])

C9_Witness ==
    /\ pc = "done"
    /\ Len(data) = 2
    /\ data[1].shape = "other"
    /\ data[2].shape = "list"
    /\ \E i \in 1..Len(readme) : readme[i].kind = "row"
    /\ HeaderTitles(readme) = <<data[2].name>>

WriteCount ==
    Cardinality({i \in 1..Len(effects) : effects[i] = "write profile/README.md"})

\* C10: README.md is written once, as the last network or file operation,
\* with the complete document; a run that ends earlier leaves the file as
\* it was; feedstocks.json is read only after the remote fetch.
C10_WriteOnceAtEnd ==
    /\ pc # "done" => readme = OldReadme /\ WriteCount = 0
    /\ pc = "done" =>
        /\ WriteCount = 1
        /\ effects[Len(effects)] = "write profile/README.md"
        /\ readme = lines
        /\ lines[Len(lines)] = Timestamp
    /\ \A i \in 1..Len(effects) :
        effects[i] = "read feedstocks.json" =>
            \E j \in 1..(i - 1) : effects[j] = "GET feedstock-outputs.json"

C10_Witness ==
    /\ pc = "aborted"
    /\ exc.type = "KeyError"
    /\ idx = 1
    /\ Len(lines) > Len(Preamble)
    /\ readme = OldReadme
====
